---------------------------- MODULE Spec2Model ----------------------------
(***************************************************************************)
(* A model of scripts/video_to_images_generator.py: extract_frames, the    *)
(* frame-selection loop, and calculate_overlap_percentage.                 *)
(*                                                                         *)
(* An image is a sequence of BGR pixels (the raster, flattened); its       *)
(* length is its shape.  Percentages and SSIM values are integers scaled   *)
(* by 100 (ssim_threshold 0.95 is 95).  The video is fixed in Init, so a   *)
(* frame index always decodes to the same thing.  Each branch of one loop  *)
(* iteration is one action.  extract_frames may be called again on the same*)
(* video and configuration once a call has ended.                          *)
(***************************************************************************)
EXTENDS Integers, Sequences, FiniteSets, TLC

\* ---------------------------------------------------------------- bounds

\* Longest video whose content is drawn freely.
MaxTotal == 3

\* Length of the longest videos (more accepted frames than the overlap window).
RampLen == 13

\* Loop iterations explored beyond total_frames (a call whose step_size is 0
\* never advances frame_num; the model follows it this far).
MaxExtraIters == 1

\* Calls of extract_frames on the same video and configuration.
MaxCalls == 2

\* Most pixels of an image handed to a comparison primitive directly.
MaxPixels == 3

\* Longest argument list handed to video_to_image (the command name included).
MaxArgs == 6

\* Prompts of one interactive session.
MaxPrompts == 3

\* ------------------------------------------------------- program constants

\* extracted_frames[max(0, count - 10):]
OverlapWindow == 10

\* -------------------------------------------------------------- images

Max(a, b) == IF a >= b THEN a ELSE b

Abs(a) == IF a >= 0 THEN a ELSE 0 - a

\* prev_frame = None, and the frame cap.read() returns with ret = False.
None == <<>>

\* A BGR pixel whose three channels are v.
Gy(v) == <<v, v, v>>

Black == Gy(0)

Dark == Gy(1)

White == Gy(255)

\* cv2.COLOR_BGR2GRAY on one 8-bit pixel <<B, G, R>>: OpenCV's fixed-point
\* 0.114 B + 0.587 G + 0.299 R, rounded.
Gray(p) == (1868 * p[1] + 9617 * p[2] + 4899 * p[3] + 8192) \div 16384

\* cv2.cvtColor(image, cv2.COLOR_BGR2GRAY)
cvtColor(image) == [i \in 1..Len(image) |-> Gray(image[i])]

\* skimage's structural_similarity and cv2.absdiff both raise when the two
\* images differ in shape.
ShapeMismatch(image1, image2) == Len(image1) # Len(image2)

\* structural_similarity(gray1, gray2) of two gray images of equal shape, times
\* 100.  The library primitive is not part of the repository; the model keeps
\* that it is a symmetric function of the two images, 1.0 on identical images,
\* high on images whose pixels all differ by at most one gray level and low
\* otherwise.
ssim(gray1, gray2) ==
    IF gray1 = gray2 THEN 100
    ELSE IF \A i \in 1..Len(gray1) : Abs(gray1[i] - gray2[i]) <= 1 THEN 99
    ELSE 0

\* Faulty variant of countNonZero: the pixels that are equal are counted.
countNonZero_Equal(gray1, gray2) ==
    Cardinality({i \in 1..Len(gray1) : Abs(gray1[i] - gray2[i]) = 0})

\* cv2.countNonZero(cv2.absdiff(gray1, gray2))
countNonZero(gray1, gray2) ==
    Cardinality({i \in 1..Len(gray1) : Abs(gray1[i] - gray2[i]) # 0})

\* Faulty variant of calculate_overlap_percentage: the share of the pixels
\* that differ.
calculate_overlap_percentage_Differing(image1, image2) ==
    (countNonZero(cvtColor(image1), cvtColor(image2)) * 100) \div Len(image1)

\* calculate_overlap_percentage(image1, image2) for images of equal shape
\* (exact whenever total_pixels divides 100 * (total_pixels - non_zero_pixels)).
calculate_overlap_percentage(image1, image2) ==
    LET gray_image1 == cvtColor(image1)
        gray_image2 == cvtColor(image2)
        non_zero_pixels == countNonZero(gray_image1, gray_image2)
        total_pixels == Len(image1)
    IN  ((total_pixels - non_zero_pixels) * 100) \div total_pixels

\* What a call of a comparison primitive gives: a value, or an exception.
Returned(v) == [raised |-> FALSE, value |-> v]

Raised == [raised |-> TRUE, value |-> 0]

\* calculate_overlap_percentage(image1, image2) called on any two images:
\* cv2.absdiff raises on images of different shapes.
OverlapCall(image1, image2) ==
    IF ShapeMismatch(image1, image2) THEN Raised
    ELSE Returned(calculate_overlap_percentage(image1, image2))

\* ssim(cvtColor(image1), cvtColor(image2)) as line 57 calls it, on any two
\* images: structural_similarity raises on images of different shapes.
SsimCall(image1, image2) ==
    IF ShapeMismatch(image1, image2) THEN Raised
    ELSE Returned(ssim(cvtColor(image1), cvtColor(image2)))

\* A pixel that is not gray, with Black's gray value.
Tint == <<1, 0, 0>>

Palette == {Black, Tint, White}

\* The images of two to MaxPixels pixels over the palette.
Images == UNION {[1..n -> Palette] : n \in 2..MaxPixels}

\* ---------------------------------------------------------------- videos

FrameA == <<Black, Black>>

\* Every pixel one gray level off FrameA: structurally similar, no pixel equal.
FrameN == <<Dark, Dark>>

\* Half of the pixels equal to FrameA's, structurally different.
FrameH == <<Black, White>>

\* A frame of another shape.
FrameX == <<White, White, White>>

ShortFrames == {FrameA, FrameN, FrameH, FrameX}

\* What cap.read() returns: (ret, frame).
Read(r, f) == [ret |-> r, frame |-> f]

ReadFailed == Read(FALSE, None)

ShortVideos ==
    UNION {[1..n -> {Read(TRUE, f) : f \in ShortFrames} \cup {ReadFailed}] :
           n \in 0..MaxTotal}

\* The i-th frame of a long video: pairwise different, dissimilar frames that
\* repeat with the video's period (period 1: all frames identical).
RampFrame(i) == <<Gy(10 + 2 * i), Gy(10 + 2 * i)>>

RampPeriods == {1, OverlapWindow, OverlapWindow + 1, RampLen}

\* The long videos' lengths.
RampLens == {RampLen - 1, RampLen}

\* A long video of n frames with period p whose first frame is shown 1 + d times.
RampVideo(n, p, d) ==
    [i \in 1..n |-> Read(TRUE, RampFrame((IF i - 1 > d THEN i - 1 - d ELSE 0) % p))]

RampVideos ==
    {RampVideo(n, p, d) : n \in RampLens, p \in RampPeriods, d \in {0, 1}}

Videos == ShortVideos \cup RampVideos

\* max_overlap_percentage: the default 6, and values at and above the overlaps
\* two-pixel frames can have.
OverlapLimits == {6, 50, 100}

\* ssim_threshold * 100: the default 0.95, 0.99 (only identical images are
\* above it) and 1.0 (nothing is above it).
SsimThresholds == {95, 99, 100}

\* ----------------------------------------------------------------- state

VARIABLES
    video,                  \* the file's frames: what each index decodes to
    openable,               \* whether cv2.VideoCapture can open video_path
    max_frames,
    max_overlap_percentage,
    ssim_threshold,
    folder_exists,          \* output_folder on disk
    pc,                     \* "idle", "loop", "returned", "raised"
    cap,                    \* "none", "opened", "unopened", "released"
    total_frames,
    step_size,
    count,
    frame_num,
    extracted_frames,
    prev_frame,
    written,                \* files this call wrote: output_path -> frame
    pbar,                   \* the progress bar's counter
    printed,                \* "none", "no_frames" (print_err), "finished"
    result,                 \* the returned list
    exception,              \* what a raised call raised
    iters,                  \* loop iterations of this call
    log,                    \* per iteration: the index sampled and the decision
    calls,                  \* calls of extract_frames so far
    earlier,                \* the previous call's log, frames, files and outcome
    image1,                 \* the images of a direct call of a comparison
    image2,                 \*   primitive (None when extract_frames is run)
    scored,                 \* that call: the function and what it gave
    args,                   \* video_to_image's argument list
    v2i_pc,                 \* video_to_image: "off", "called", "extracting", "returned"
    status,                 \* video_to_image's return value
    invoked,                \* video_to_image called extract_frames
    passed,                 \* the arguments it called extract_frames with
    outcome,                \* how that call of extract_frames ended
    session_pc,             \* run.py: "off", "input", "cli", "exited"
    user_cmd,               \* the line read by input()
    prompts,                \* lines read so far
    reports,                \* exceptions reported by line 49 so far
    ended_by,               \* what ended the session
    pipe_pc,                \* PointCloudGenerator.run: "off", "called", "between",
                            \*   "in_stage", "converting", "done"
    stage,                  \* the number of pipeline stages started
    started,                \* the functions run has called, in order
    stats                   \* the lines of gpc_stats.txt

vars == <<video, openable, max_frames, max_overlap_percentage, ssim_threshold,
          folder_exists, pc, cap, total_frames, step_size, count, frame_num,
          extracted_frames, prev_frame, written, pbar, printed, result,
          exception, iters, log, calls, earlier, image1, image2, scored,
          args, v2i_pc, status, invoked, passed, outcome,
          session_pc, user_cmd, prompts, reports, ended_by,
          pipe_pc, stage, started, stats>>

\* The state of a direct call of a comparison primitive.
direct == <<image1, image2, scored>>

NotScored == [fn |-> "none", out |-> Returned(0)]

\* No direct call of a comparison primitive is made.
DirectOff ==
    /\ image1 = None
    /\ image2 = None
    /\ scored = NotScored

\* The state of a call of video_to_image.
command == <<args, v2i_pc, status, invoked, passed, outcome>>

\* The return value None: video_to_image falls off its end (CLI.py line 75).
StatusNone == 0 - 1

NotPassed == [video_path |-> "", output_path |-> <<>>, max_frames |-> 0,
              max_overlap_percentage |-> 0, ssim_threshold |-> 0]

\* video_to_image is not called.
CommandOff ==
    /\ args = <<>>
    /\ v2i_pc = "off"
    /\ status = StatusNone
    /\ invoked = FALSE
    /\ passed = NotPassed
    /\ outcome = "none"

\* The state of the interactive session of run.py.
session == <<session_pc, user_cmd, prompts, reports, ended_by>>

\* run.py is not running.
SessionOff ==
    /\ session_pc = "off"
    /\ user_cmd = <<>>
    /\ prompts = 0
    /\ reports = 0
    /\ ended_by = "none"

\* The state of a call of PointCloudGenerator.run.
pipeline == <<pipe_pc, stage, started, stats>>

\* PointCloudGenerator.run is not called.
PipelineOff ==
    /\ pipe_pc = "off"
    /\ stage = 0
    /\ started = <<>>
    /\ stats = <<>>

\* Everything but extract_frames' own state.
outside == <<direct, command, session, pipeline>>

config == <<video, openable, max_frames, max_overlap_percentage, ssim_threshold>>

\* f"{output_folder}\\frame_{count}.jpg"
output_path(n) == <<"frame_", n, ".jpg">>

NoFiles == [p \in {} |-> None]

NoEarlier == [log |-> <<>>, frames |-> <<>>, files |-> NoFiles, outcome |-> "none"]

Init ==
    /\ \/ openable = TRUE /\ video \in Videos
       \/ openable = FALSE /\ video = <<>>
    /\ max_frames \in 1..(Len(video) + 1)
    /\ max_overlap_percentage \in OverlapLimits
    /\ ssim_threshold \in SsimThresholds
    /\ folder_exists = FALSE
    /\ pc = "idle"
    /\ cap = "none"
    /\ total_frames = 0
    /\ step_size = 0
    /\ count = 0
    /\ frame_num = 0
    /\ extracted_frames = <<>>
    /\ prev_frame = None
    /\ written = NoFiles
    /\ pbar = 0
    /\ printed = "none"
    /\ result = <<>>
    /\ exception = "none"
    /\ iters = 0
    /\ log = <<>>
    /\ calls = 0
    /\ earlier = NoEarlier
    /\ DirectOff
    /\ CommandOff
    /\ SessionOff
    /\ PipelineOff


\* ------------------------------------------------------- extract_frames

\* cap.set(cv2.CAP_PROP_POS_FRAMES, frame_num); ret, frame = cap.read()
Decode(n) ==
    IF cap = "opened" /\ n >= 0 /\ n < Len(video) THEN video[n + 1] ELSE ReadFailed

ret == Decode(frame_num).ret

frame == Decode(frame_num).frame

\* Faulty variant of StepSize: one more than the quotient.
StepSize_PlusOne(total, budget) == total \div budget + 1

\* step_size = total_frames // max_frames
StepSize(total, budget) == total \div budget

\* Faulty variant of LoopCond: the index one past the last frame is still read.
LoopCond_PastEnd == count < max_frames /\ frame_num <= total_frames

\* Faulty variant of LoopCond: the budget test off by one.
LoopCond_OffByOne == count <= max_frames /\ frame_num < total_frames

\* while count < max_frames and frame_num < total_frames
LoopCond == count < max_frames /\ frame_num < total_frames

\* Faulty variant of TooSimilar: the comparison inverted.
TooSimilar_Inverted(similarity) == similarity < ssim_threshold

\* if similarity > ssim_threshold
TooSimilar(similarity) == similarity > ssim_threshold

\* ssim(...) raises: the decoded frame's shape differs from prev_frame's.
SsimRaises == ret /\ prev_frame # None /\ ShapeMismatch(prev_frame, frame)

\* Faulty variant of SsimRejects: with no prev_frame the candidate is skipped.
SsimRejects_WithoutPrev ==
    /\ ret
    /\ \/ prev_frame = None
       \/ /\ ~ShapeMismatch(prev_frame, frame)
          /\ TooSimilar(ssim(cvtColor(prev_frame), cvtColor(frame)))

\* The candidate is skipped by the similarity gate.
SsimRejects ==
    /\ ret
    /\ prev_frame # None
    /\ ~ShapeMismatch(prev_frame, frame)
    /\ TooSimilar(ssim(cvtColor(prev_frame), cvtColor(frame)))

\* The candidate reaches the overlap check.
PassesSsim == ret /\ ~SsimRaises /\ ~SsimRejects

\* Faulty variant of RecentFrames: every accepted frame is compared.
RecentFrames_All == extracted_frames

\* Faulty variant of RecentFrames: only the last accepted frame is compared.
RecentFrames_LastOnly ==
    SubSeq(extracted_frames, Max(0, count - 1) + 1, Len(extracted_frames))

\* extracted_frames[max(0, count - 10):]
RecentFrames ==
    SubSeq(extracted_frames, Max(0, count - OverlapWindow) + 1, Len(extracted_frames))

\* The for loop over the recent frames, with its break: "overlap" or "clear",
\* or "raise" when calculate_overlap_percentage meets a frame of another shape.
RECURSIVE OverlapScan(_, _)
OverlapScan(candidate, frames) ==
    IF frames = <<>> THEN "clear"
    ELSE IF ShapeMismatch(candidate, Head(frames)) THEN "raise"
    ELSE IF calculate_overlap_percentage(candidate, Head(frames)) > max_overlap_percentage
         THEN "overlap"
    ELSE OverlapScan(candidate, Tail(frames))

\* Faulty variant of InitialFrames: the list outlives the call (a shared default).
InitialFrames_Shared == extracted_frames

\* extracted_frames = [] at the start of a call.
InitialFrames == <<>>

\* Faulty variant of NoFramesExtracted: the test of line 85 used in its place.
NoFramesExtracted_BudgetUnmet == count < max_frames

\* if len(extracted_frames) == 0
NoFramesExtracted == Len(extracted_frames) = 0

Entry(n, d) == [frame_num |-> n, decision |-> d]

\* The loop body is entered (the model follows a call that never advances for
\* MaxExtraIters iterations past total_frames).
InLoop == pc = "loop" /\ LoopCond /\ iters < total_frames + MaxExtraIters

Ended == pc \in {"returned", "raised"}

\* Lines 31-48: mkdir, open the video, read its properties, set the locals.
\* utils.mkdir reports a failure to create the folder and returns.
Call ==
    /\ pc = "idle" \/ (Ended /\ calls < MaxCalls)
    /\ pc' = "loop"
    /\ calls' = calls + 1
    /\ earlier' = IF pc = "idle" THEN NoEarlier
                  ELSE [log |-> log, frames |-> extracted_frames, files |-> written,
                        outcome |-> pc]
    /\ folder_exists' \in (IF folder_exists THEN {TRUE} ELSE BOOLEAN)
    /\ cap' = IF openable THEN "opened" ELSE "unopened"
    /\ total_frames' = IF openable THEN Len(video) ELSE 0
    /\ step_size' = StepSize(total_frames', max_frames)
    /\ count' = 0
    /\ frame_num' = 0
    /\ extracted_frames' = InitialFrames
    /\ prev_frame' = None
    /\ written' = NoFiles
    /\ pbar' = 0
    /\ printed' = "none"
    /\ result' = <<>>
    /\ exception' = "none"
    /\ iters' = 0
    /\ log' = <<>>
    /\ UNCHANGED <<config, outside>>

\* Faulty variant of DecodeFail: the failed read is tried again.
DecodeFail_Stalls ==
    /\ InLoop
    /\ ~ret
    /\ iters' = iters + 1
    /\ log' = Append(log, Entry(frame_num, "decode_skip"))
    /\ UNCHANGED <<config, outside, folder_exists, pc, cap, total_frames, step_size,
                   count, frame_num, extracted_frames, prev_frame, written, pbar,
                   printed, result, exception, calls, earlier>>

\* Faulty variant of DecodeFail: the failed read ends the call with an error.
DecodeFail_Fatal ==
    /\ InLoop
    /\ ~ret
    /\ pc' = "raised"
    /\ exception' = "DecodeError"
    /\ iters' = iters + 1
    /\ log' = Append(log, Entry(frame_num, "decode_skip"))
    /\ UNCHANGED <<config, outside, folder_exists, cap, total_frames, step_size, count,
                   frame_num, extracted_frames, prev_frame, written, pbar, printed,
                   result, calls, earlier>>

\* Lines 50-54, 82: the read fails; only frame_num moves.
DecodeFail ==
    /\ InLoop
    /\ ~ret
    /\ frame_num' = frame_num + step_size
    /\ iters' = iters + 1
    /\ log' = Append(log, Entry(frame_num, "decode_skip"))
    /\ UNCHANGED <<config, outside, folder_exists, pc, cap, total_frames, step_size,
                   count,
                   extracted_frames, prev_frame, written, pbar, printed, result,
                   exception, calls, earlier>>

\* Faulty variant of SsimReject: the rejected candidate becomes prev_frame.
SsimReject_UpdatesPrev ==
    /\ InLoop
    /\ SsimRejects
    /\ prev_frame' = frame
    /\ frame_num' = frame_num + step_size
    /\ iters' = iters + 1
    /\ log' = Append(log, Entry(frame_num, "ssim_reject"))
    /\ UNCHANGED <<config, outside, folder_exists, pc, cap, total_frames, step_size,
                   count, extracted_frames, written, pbar, printed, result,
                   exception, calls, earlier>>

\* Lines 55-62: similarity above the threshold; continue.
SsimReject ==
    /\ InLoop
    /\ SsimRejects
    /\ frame_num' = frame_num + step_size
    /\ iters' = iters + 1
    /\ log' = Append(log, Entry(frame_num, "ssim_reject"))
    /\ UNCHANGED <<config, outside, folder_exists, pc, cap, total_frames, step_size,
                   count,
                   extracted_frames, prev_frame, written, pbar, printed, result,
                   exception, calls, earlier>>

\* Faulty variant of Raise: the exception is caught and the candidate skipped.
Raise_Swallowed ==
    /\ InLoop
    /\ \/ SsimRaises
       \/ PassesSsim /\ OverlapScan(frame, RecentFrames) = "raise"
    /\ frame_num' = frame_num + step_size
    /\ iters' = iters + 1
    /\ log' = Append(log, Entry(frame_num, "raise"))
    /\ UNCHANGED <<config, outside, folder_exists, pc, cap, total_frames, step_size,
                   count, extracted_frames, prev_frame, written, pbar, printed,
                   result, exception, calls, earlier>>

\* Lines 57 and 67: a comparison raises (shapes differ); nothing catches it, and
\* the call ends there, before cap.release().
Raise ==
    /\ InLoop
    /\ IF SsimRaises THEN exception' = "ValueError"
       ELSE /\ PassesSsim
            /\ OverlapScan(frame, RecentFrames) = "raise"
            /\ exception' = "cv2.error"
    /\ pc' = "raised"
    /\ iters' = iters + 1
    /\ log' = Append(log, Entry(frame_num, "raise"))
    /\ UNCHANGED <<config, outside, folder_exists, cap, total_frames, step_size, count,
                   frame_num, extracted_frames, prev_frame, written, pbar, printed,
                   result, calls, earlier>>

\* Faulty variant of OverlapReject: the next candidate is passed over.
OverlapReject_SkipsAhead ==
    /\ InLoop
    /\ PassesSsim
    /\ OverlapScan(frame, RecentFrames) = "overlap"
    /\ prev_frame' = frame
    /\ frame_num' = frame_num + 2 * step_size
    /\ iters' = iters + 1
    /\ log' = Append(log, Entry(frame_num, "overlap_reject"))
    /\ UNCHANGED <<config, outside, folder_exists, pc, cap, total_frames, step_size,
                   count, extracted_frames, written, pbar, printed, result,
                   exception, calls, earlier>>

\* Faulty variant of OverlapReject: prev_frame is left as it was.
OverlapReject_KeepsPrev ==
    /\ InLoop
    /\ PassesSsim
    /\ OverlapScan(frame, RecentFrames) = "overlap"
    /\ frame_num' = frame_num + step_size
    /\ iters' = iters + 1
    /\ log' = Append(log, Entry(frame_num, "overlap_reject"))
    /\ UNCHANGED <<config, outside, folder_exists, pc, cap, total_frames, step_size,
                   count, extracted_frames, prev_frame, written, pbar, printed,
                   result, exception, calls, earlier>>

\* Lines 64-70, 80, 82: the candidate overlaps a recent accepted frame.
OverlapReject ==
    /\ InLoop
    /\ PassesSsim
    /\ OverlapScan(frame, RecentFrames) = "overlap"
    /\ prev_frame' = frame
    /\ frame_num' = frame_num + step_size
    /\ iters' = iters + 1
    /\ log' = Append(log, Entry(frame_num, "overlap_reject"))
    /\ UNCHANGED <<config, outside, folder_exists, pc, cap, total_frames, step_size,
                   count,
                   extracted_frames, written, pbar, printed, result, exception,
                   calls, earlier>>

\* Faulty variant of Accept: the stride is computed again from what is left.
Accept_Restrides ==
    /\ InLoop
    /\ PassesSsim
    /\ OverlapScan(frame, RecentFrames) = "clear"
    /\ extracted_frames' = Append(extracted_frames, frame)
    /\ written' = IF folder_exists THEN (output_path(count) :> frame) @@ written
                  ELSE written
    /\ count' = count + 1
    /\ pbar' = pbar + 1
    /\ prev_frame' = frame
    /\ step_size' = (total_frames - frame_num) \div max_frames
    /\ frame_num' = frame_num + step_size
    /\ iters' = iters + 1
    /\ log' = Append(log, Entry(frame_num, "accept"))
    /\ UNCHANGED <<config, outside, folder_exists, pc, cap, total_frames,
                   printed, result, exception, calls, earlier>>

\* Faulty variant of Accept: the frame is put at the front of the list.
Accept_Prepends ==
    /\ InLoop
    /\ PassesSsim
    /\ OverlapScan(frame, RecentFrames) = "clear"
    /\ extracted_frames' = <<frame>> \o extracted_frames
    /\ written' = IF folder_exists THEN (output_path(count) :> frame) @@ written
                  ELSE written
    /\ count' = count + 1
    /\ pbar' = pbar + 1
    /\ prev_frame' = frame
    /\ frame_num' = frame_num + step_size
    /\ iters' = iters + 1
    /\ log' = Append(log, Entry(frame_num, "accept"))
    /\ UNCHANGED <<config, outside, folder_exists, pc, cap, total_frames,
                   step_size, printed, result, exception, calls, earlier>>

\* Faulty variant of Accept: prev_frame is left as it was.
Accept_KeepsPrev ==
    /\ InLoop
    /\ PassesSsim
    /\ OverlapScan(frame, RecentFrames) = "clear"
    /\ extracted_frames' = Append(extracted_frames, frame)
    /\ written' = IF folder_exists THEN (output_path(count) :> frame) @@ written
                  ELSE written
    /\ count' = count + 1
    /\ pbar' = pbar + 1
    /\ frame_num' = frame_num + step_size
    /\ iters' = iters + 1
    /\ log' = Append(log, Entry(frame_num, "accept"))
    /\ UNCHANGED <<config, outside, folder_exists, pc, cap, total_frames,
                   step_size, prev_frame, printed, result, exception, calls, earlier>>

\* Lines 72-82: the candidate is accepted.  cv2.imwrite returns False when it
\* cannot write (the folder is missing); its result is discarded.
Accept ==
    /\ InLoop
    /\ PassesSsim
    /\ OverlapScan(frame, RecentFrames) = "clear"
    /\ extracted_frames' = Append(extracted_frames, frame)
    /\ written' = IF folder_exists THEN (output_path(count) :> frame) @@ written
                  ELSE written
    /\ count' = count + 1
    /\ pbar' = pbar + 1
    /\ prev_frame' = frame
    /\ frame_num' = frame_num + step_size
    /\ iters' = iters + 1
    /\ log' = Append(log, Entry(frame_num, "accept"))
    /\ UNCHANGED <<config, outside, folder_exists, pc, cap, total_frames, step_size,
                   printed, result, exception, calls, earlier>>

\* Lines 84-97: the loop is left; release, report, return.
LoopExit ==
    /\ pc = "loop"
    /\ ~LoopCond
    /\ pbar' = IF count < max_frames THEN pbar + (max_frames - count) ELSE pbar
    /\ cap' = "released"
    /\ printed' = IF NoFramesExtracted THEN "no_frames" ELSE "finished"
    /\ result' = extracted_frames
    /\ pc' = "returned"
    /\ UNCHANGED <<config, outside, folder_exists, total_frames, step_size, count,
                   frame_num, extracted_frames, prev_frame, written, exception,
                   iters, log, calls, earlier>>

Next ==
    \/ Call
    \/ DecodeFail
    \/ SsimReject
    \/ Raise
    \/ OverlapReject
    \/ Accept
    \/ LoopExit

Spec == Init /\ [][Next]_vars

\* ------------------------------------- the comparison primitives, directly

\* extract_frames is not run.
ExtractorOff ==
    /\ openable = FALSE
    /\ video = <<>>
    /\ max_frames = 1
    /\ max_overlap_percentage = 6
    /\ ssim_threshold = 95
    /\ folder_exists = FALSE
    /\ pc = "off"
    /\ cap = "none"
    /\ total_frames = 0
    /\ step_size = 0
    /\ count = 0
    /\ frame_num = 0
    /\ extracted_frames = <<>>
    /\ prev_frame = None
    /\ written = NoFiles
    /\ pbar = 0
    /\ printed = "none"
    /\ result = <<>>
    /\ exception = "none"
    /\ iters = 0
    /\ log = <<>>
    /\ calls = 0
    /\ earlier = NoEarlier

\* Two images are handed to the primitives.
InitDirect ==
    /\ image1 \in Images
    /\ image2 \in Images
    /\ scored = NotScored
    /\ ExtractorOff
    /\ CommandOff
    /\ SessionOff
    /\ PipelineOff

extractor == <<config, folder_exists, pc, cap, total_frames, step_size, count,
               frame_num, extracted_frames, prev_frame, written, pbar, printed,
               result, exception, iters, log, calls, earlier>>

\* calculate_overlap_percentage(image1, image2)
OverlapDirect ==
    /\ image1 # None
    /\ scored' = [fn |-> "overlap", out |-> OverlapCall(image1, image2)]
    /\ UNCHANGED <<extractor, image1, image2, command, session,
                   pipeline>>

\* ssim(cv2.cvtColor(image1, ...), cv2.cvtColor(image2, ...))
SsimDirect ==
    /\ image1 # None
    /\ scored' = [fn |-> "ssim", out |-> SsimCall(image1, image2)]
    /\ UNCHANGED <<extractor, image1, image2, command, session,
                   pipeline>>

NextDirect ==
    \/ OverlapDirect
    \/ SsimDirect

\* The primitives called on any two images.
SpecDirect == InitDirect /\ [][NextDirect]_vars

\* The primitives called on any two images, or by extract_frames.
SpecPrimitives == (Init \/ InitDirect) /\ [][Next \/ NextDirect]_vars

\* --------------------------------------------------- CLI.video_to_image

\* The words of a command line.
Words == {"-h", "-help", "video.mp4", "7", "0.9", "x"}

\* The strings int() accepts, with their values.
IntLiterals == ("7" :> 7)

\* The strings float() accepts, with their values times 100.
FloatLiterals == ("7" :> 700) @@ ("0.9" :> 90)

\* int(s) does not raise ValueError.
IntParses(s) == s \in DOMAIN IntLiterals

\* float(s) does not raise ValueError.
FloatParses(s) == s \in DOMAIN FloatLiterals

\* The argument lists: the command's name, then up to MaxArgs - 1 words.
ArgLists ==
    UNION {{<<"v2i">> \o w : w \in [1..n -> Words]} : n \in 0..(MaxArgs - 1)}

\* args[i], indexed from 0 as in the source.
Arg(i) == args[i + 1]

\* video_to_image(args) is called.
InitCommand ==
    /\ args \in ArgLists
    /\ v2i_pc = "called"
    /\ status = StatusNone
    /\ invoked = FALSE
    /\ passed = NotPassed
    /\ outcome = "none"
    /\ ExtractorOff
    /\ DirectOff
    /\ SessionOff
    /\ PipelineOff

\* Faulty variant of HelpRequested: the length of args is not looked at.
HelpRequested_AnyLength == Len(args) >= 2 /\ Arg(1) \in {"-h", "-help"}

\* if len(args) == 2 and (args[1] == "-h" or args[1] == "-help")
HelpRequested == Len(args) = 2 /\ Arg(1) \in {"-h", "-help"}

\* elif len(args) < 3
PathsMissing == ~HelpRequested /\ Len(args) < 3

\* Lines 50-55: max_frames = int(args[3]) raises ValueError.
BadMaxFrames ==
    /\ ~HelpRequested
    /\ ~PathsMissing
    /\ Len(args) > 3
    /\ ~IntParses(Arg(3))

\* Lines 57-62: max_overlap_percentage = int(args[4]) raises ValueError.
BadOverlap ==
    /\ ~HelpRequested
    /\ ~PathsMissing
    /\ ~BadMaxFrames
    /\ Len(args) > 4
    /\ ~IntParses(Arg(4))

\* Lines 64-69: ssim_threshold = float(args[5]) raises ValueError.
BadSsim ==
    /\ ~HelpRequested
    /\ ~PathsMissing
    /\ ~BadMaxFrames
    /\ ~BadOverlap
    /\ Len(args) > 5
    /\ ~FloatParses(Arg(5))

\* return code
Returns(code) ==
    /\ v2i_pc' = "returned"
    /\ status' = code
    /\ UNCHANGED <<args, invoked, passed, outcome, extractor, direct, session,
                   pipeline>>

\* Lines 33-35: help_to_string("v2i_help"); return 2
V2IHelp ==
    /\ v2i_pc = "called"
    /\ HelpRequested
    /\ Returns(2)

\* Lines 37-39: the paths are missing; return 1
V2IPathsMissing ==
    /\ v2i_pc = "called"
    /\ PathsMissing
    /\ Returns(1)

\* Lines 50-55: return 1
V2IBadMaxFrames ==
    /\ v2i_pc = "called"
    /\ BadMaxFrames
    /\ Returns(1)

\* Lines 57-62: return 1
V2IBadOverlap ==
    /\ v2i_pc = "called"
    /\ BadOverlap
    /\ Returns(1)

\* Lines 64-69: return 1
V2IBadSsim ==
    /\ v2i_pc = "called"
    /\ BadSsim
    /\ Returns(1)

\* Lines 41-47, 71-73: extract_frames is called with the parsed arguments, or
\* the defaults 100, 6 and 0.95.
V2IExtract ==
    /\ v2i_pc = "called"
    /\ ~HelpRequested
    /\ ~PathsMissing
    /\ ~BadMaxFrames
    /\ ~BadOverlap
    /\ ~BadSsim
    /\ v2i_pc' = "extracting"
    /\ invoked' = TRUE
    /\ passed' = [video_path |-> Arg(1),
                  output_path |-> <<Arg(2), "\\images">>,
                  max_frames |-> IF Len(args) > 3 THEN IntLiterals[Arg(3)] ELSE 100,
                  max_overlap_percentage |->
                      IF Len(args) > 4 THEN IntLiterals[Arg(4)] ELSE 6,
                  ssim_threshold |->
                      IF Len(args) > 5 THEN FloatLiterals[Arg(5)] ELSE 95]
    /\ UNCHANGED <<args, status, outcome, extractor, direct, session,
                   pipeline>>

\* Line 75: extract_frames returned; video_to_image falls off its end.
V2IExtractReturns ==
    /\ v2i_pc = "extracting"
    /\ v2i_pc' = "returned"
    /\ outcome' = "returned"
    /\ status' = StatusNone
    /\ UNCHANGED <<args, invoked, passed, extractor, direct, session,
                   pipeline>>

\* Lines 73-75: extract_frames raised; print_err, return 1
V2IExtractRaises ==
    /\ v2i_pc = "extracting"
    /\ v2i_pc' = "returned"
    /\ outcome' = "raised"
    /\ status' = 1
    /\ UNCHANGED <<args, invoked, passed, extractor, direct, session,
                   pipeline>>

NextCommand ==
    \/ V2IHelp
    \/ V2IPathsMissing
    \/ V2IBadMaxFrames
    \/ V2IBadOverlap
    \/ V2IBadSsim
    \/ V2IExtract
    \/ V2IExtractReturns
    \/ V2IExtractRaises

\* video_to_image called on any argument list.
SpecCommand == InitCommand /\ [][NextCommand]_vars

\* ------------------------------------------------- run.py and CLI.cli

\* A run of white space in a line.
SP == " "

\* A quotation mark that is never closed.
OpenQuote == "\""

\* The lines input() may return, as words, white space and quotation marks.
Lines ==
    {<<>>, <<SP>>, <<"-h">>, <<"-help">>,
     <<"-e">>, <<"-stop">>, <<"-quit">>, <<"-exit">>, <<SP, "-exit", SP>>,
     <<"-exit", SP, "now">>, <<"exit">>,
     <<"v2i", SP, "-h">>, <<"video2images">>, <<"gpc", SP, "proj">>,
     <<"generatePointCloud", SP, "-h">>, <<"cpc", SP, "-h">>, <<"combinePointClouds">>,
     <<"v2i", SP, OpenQuote, "video.mp4">>}

\* cmd.strip()
RECURSIVE strip(_)
strip(cmd) ==
    IF cmd = <<>> THEN cmd
    ELSE IF Head(cmd) = SP THEN strip(Tail(cmd))
    ELSE IF cmd[Len(cmd)] = SP THEN strip(SubSeq(cmd, 1, Len(cmd) - 1))
    ELSE cmd

\* shlex.split(cmd) raises ValueError("No closing quotation").
SplitRaises(cmd) == \E i \in 1..Len(cmd) : cmd[i] = OpenQuote

\* shlex.split(cmd), when it does not raise.
split(cmd) == SelectSeq(cmd, LAMBDA w : w # SP)

\* cmd in ['-e', '-stop', '-quit', '-exit']
IsExitCommand(cmd) == Len(cmd) = 1 /\ cmd[1] \in {"-e", "-stop", "-quit", "-exit"}

\* The branch cli takes on a line: lines 207-229.
Branch(line) ==
    LET cmd == strip(line)
    IN  IF SplitRaises(cmd) THEN "ValueError"
        ELSE IF cmd = <<>> THEN "pass"
        ELSE IF Len(cmd) = 1 /\ cmd[1] \in {"-h", "-help"} THEN "help"
        ELSE IF IsExitCommand(cmd) THEN "return 0"
        ELSE IF split(cmd)[1] \in {"video2images", "v2i"} THEN "video_to_image"
        ELSE IF split(cmd)[1] \in {"generatePointCloud", "gpc"} THEN "generate_point_cloud"
        ELSE IF split(cmd)[1] \in {"combinePointClouds", "cpc"} THEN "combine_point_clouds"
        ELSE "invalid"

\* run.py line 41: the session starts at its first prompt.
InitSession ==
    /\ session_pc = "input"
    /\ user_cmd = <<>>
    /\ prompts = 0
    /\ reports = 0
    /\ ended_by = "none"
    /\ ExtractorOff
    /\ DirectOff
    /\ CommandOff
    /\ PipelineOff

\* The session ends.
Ends(by) ==
    /\ session_pc' = "exited"
    /\ ended_by' = by
    /\ UNCHANGED <<user_cmd, prompts, reports, extractor, direct, command,
                   pipeline>>

\* Line 44: input() returns a line.
InputLine ==
    /\ session_pc = "input"
    /\ prompts < MaxPrompts
    /\ user_cmd' \in Lines
    /\ prompts' = prompts + 1
    /\ session_pc' = "cli"
    /\ UNCHANGED <<reports, ended_by, extractor, direct, command,
                   pipeline>>

\* Lines 44, 50-51: Ctrl+C at the prompt; exit(0)
InputInterrupted ==
    /\ session_pc = "input"
    /\ Ends("KeyboardInterrupt")

\* Line 44: input() raises EOFError at the end of standard input.  It is raised
\* outside the inner try, and line 50 catches KeyboardInterrupt only.
InputEOF ==
    /\ session_pc = "input"
    /\ Ends("EOFError")

\* Lines 46-47: cli returns 0; exit(0)
CliReturnsZero ==
    /\ session_pc = "cli"
    /\ Branch(user_cmd) = "return 0"
    /\ Ends("return 0")

\* Line 46: cli returns None and the loop prompts again.
CliReturnsNone ==
    /\ session_pc = "cli"
    /\ Branch(user_cmd) \notin {"return 0", "ValueError"}
    /\ session_pc' = "input"
    /\ UNCHANGED <<user_cmd, prompts, reports, ended_by, extractor, direct, command,
                   pipeline>>

\* Lines 48-49: cli raises; print_err(e) and the loop prompts again.  shlex.split
\* raises on an open quotation; generate_point_cloud catches nothing of what
\* PointCloudGenerator raises.
CliRaises ==
    /\ session_pc = "cli"
    /\ Branch(user_cmd) \in {"ValueError", "generate_point_cloud"}
    /\ reports' = reports + 1
    /\ session_pc' = "input"
    /\ UNCHANGED <<user_cmd, prompts, ended_by, extractor, direct, command,
                   pipeline>>

\* Lines 46, 50-51: Ctrl+C while cli runs; exit(0)
CliInterrupted ==
    /\ session_pc = "cli"
    /\ Ends("KeyboardInterrupt")

NextSession ==
    \/ InputLine
    \/ InputInterrupted
    \/ InputEOF
    \/ CliReturnsZero
    \/ CliReturnsNone
    \/ CliRaises
    \/ CliInterrupted

\* One interactive session.
SpecSession == InitSession /\ [][NextSession]_vars

\* ------------------------------------------- PointCloudGenerator.run

\* Faulty variant of Stages: imageMatching is run after featureMatching.
Stages_MatchingSwapped ==
    <<"cameraInit", "featureExtraction", "featureMatching", "imageMatching",
      "incrementalSfM", "prepareDenseScene", "depthMapEstimation",
      "depthMapFiltering", "meshing", "meshFiltering", "texturing">>

\* Lines 957-967: the stages in the order run calls them (run_1_cameraInit ..
\* run_11_texturing), under the names written to the stats file.
Stages ==
    <<"cameraInit", "featureExtraction", "imageMatching", "featureMatching",
      "incrementalSfM", "prepareDenseScene", "depthMapEstimation",
      "depthMapFiltering", "meshing", "meshFiltering", "texturing">>

\* The elapsed times measure_run_time may give, as it formats them.
Durations == {"00:00:00.50", "00:01:02.00"}

\* A line of the stats file: f"{name} : {elapsed}".
StatLine(name, elapsed) == [name |-> name, elapsed |-> elapsed]

\* What gpc_stats.txt may hold from an earlier run.
OldStats ==
    {<<>>, <<StatLine("cameraInit", "00:00:00.50"), StatLine("totalElapsedTime", "00:01:02.00")>>}

\* pcg.run() is called.
InitPipeline ==
    /\ pipe_pc = "called"
    /\ stage = 0
    /\ started = <<>>
    /\ stats \in OldStats
    /\ ExtractorOff
    /\ DirectOff
    /\ CommandOff
    /\ SessionOff

\* Lines 945-955: mkdir, clear_file(stats_file_path), start_time.
RunStart ==
    /\ pipe_pc = "called"
    /\ stats' = <<>>
    /\ pipe_pc' = "between"
    /\ UNCHANGED <<stage, started, extractor, direct, command, session>>

\* Lines 957-967: measure_run_time calls the next stage's function.
StageStart ==
    /\ pipe_pc = "between"
    /\ stage < Len(Stages)
    /\ stage' = stage + 1
    /\ started' = Append(started, Stages[stage + 1])
    /\ pipe_pc' = "in_stage"
    /\ UNCHANGED <<stats, extractor, direct, command, session>>

\* Lines 957-967: the stage's function returns (os.system has waited for its
\* commands, whatever their exit codes) and its elapsed time is appended.
StageReturns ==
    /\ pipe_pc = "in_stage"
    /\ \E elapsed \in Durations :
           stats' = Append(stats, StatLine(Stages[stage], elapsed))
    /\ pipe_pc' = "between"
    /\ UNCHANGED <<stage, started, extractor, direct, command, session>>

\* Lines 969-973: after the last stage, convert_mesh_to_cloud is called.
ConvertStart ==
    /\ pipe_pc = "between"
    /\ stage = Len(Stages)
    /\ started' = Append(started, "meshToCloud")
    /\ pipe_pc' = "converting"
    /\ UNCHANGED <<stage, stats, extractor, direct, command, session>>

\* Lines 972-982, 995-996: the conversion returns; its line and the total.
ConvertReturns ==
    /\ pipe_pc = "converting"
    /\ \E elapsed \in Durations, elapsed_time \in Durations :
           stats' = stats \o <<StatLine("meshToCloud", elapsed),
                               StatLine("totalElapsedTime", elapsed_time)>>
    /\ pipe_pc' = "done"
    /\ UNCHANGED <<stage, started, extractor, direct, command, session>>

\* Lines 984-996: the conversion raises; the error is printed, then the total.
ConvertRaises ==
    /\ pipe_pc = "converting"
    /\ \E elapsed_time \in Durations :
           stats' = Append(stats, StatLine("totalElapsedTime", elapsed_time))
    /\ pipe_pc' = "done"
    /\ UNCHANGED <<stage, started, extractor, direct, command, session>>

NextPipeline ==
    \/ RunStart
    \/ StageStart
    \/ StageReturns
    \/ ConvertStart
    \/ ConvertReturns
    \/ ConvertRaises

\* One call of PointCloudGenerator.run.
SpecPipeline == InitPipeline /\ [][NextPipeline]_vars


\* ---------------------------------------------------------------- claims

IsPrefix(s, t) == Len(s) <= Len(t) /\ SubSeq(t, 1, Len(s)) = s

Decisions(d) == {i \in 1..Len(log) : log[i].decision = d}

\* Every frame of the video decodes, and all are the same image.
AllIdentical ==
    /\ Len(video) >= 1
    /\ \A i \in 1..Len(video) : video[i].ret /\ video[i].frame = video[1].frame

\* An accepted frame of this call whose file is not in the output folder.
WriteFailed == \E i \in 0..(count - 1) : output_path(i) \notin DOMAIN written

\* C1: in every state of a call, and at return, the number of accepted frames
\* (count, the accepted list, the returned list) is at most max_frames.
C1_CountWithinBudget ==
    /\ count <= max_frames
    /\ Len(extracted_frames) <= max_frames
    /\ Len(result) <= max_frames

\* C1 witness: a call returned with the budget met while frames were left.
C1_Witness ==
    /\ pc = "returned"
    /\ max_frames >= 2
    /\ Len(result) = max_frames
    /\ frame_num < total_frames

\* C2 (as claimed): when a call returns, the files written are exactly
\* frame_0.jpg .. frame_{K-1}.jpg, K the length of the returned list, the i-th
\* accepted frame under index i.
C2_FilesMatchReturned ==
    pc = "returned" =>
        /\ DOMAIN written = {output_path(i) : i \in 0..(Len(result) - 1)}
        /\ \A i \in 0..(Len(result) - 1) :
               output_path(i) \in DOMAIN written
                   => written[output_path(i)] = result[i + 1]

\* C3 (as claimed): with max_frames >= total_frames >= 1 the stride is at least
\* 1 and the loop ends (it runs at most total_frames iterations).
C3_StrideClampedAndTerminates ==
    (max_frames >= total_frames /\ total_frames >= 1)
        => (step_size >= 1 /\ iters <= total_frames)

\* C4: any two distinct accepted frames that are both among the 10 most
\* recently accepted have an overlap of at most max_overlap_percentage.
C4_RecentPairsWithinOverlap ==
    \A i, j \in 1..Len(extracted_frames) :
        (/\ i # j
         /\ i > Len(extracted_frames) - OverlapWindow
         /\ j > Len(extracted_frames) - OverlapWindow)
            => calculate_overlap_percentage(extracted_frames[i], extracted_frames[j])
                   <= max_overlap_percentage

\* C4 witness: more than 10 frames are accepted under a limit below 100, and the
\* newest one overlaps an accepted frame that has left the window.
C4_Witness ==
    /\ Len(extracted_frames) > OverlapWindow + 1
    /\ max_overlap_percentage < 100
    /\ calculate_overlap_percentage(extracted_frames[Len(extracted_frames)],
                                    extracted_frames[1]) > max_overlap_percentage

\* C5 (as claimed): no call ends, by return or by exception, with the video
\* handle still open.
C5_HandleReleasedOnEveryExit == Ended => cap # "opened"

\* C6 (as claimed): a video that cannot be opened, or has zero frames, makes the
\* call fail with SourceUnavailable instead of returning.
C6_SourceUnavailableIsFatal ==
    (Ended /\ (~openable \/ total_frames = 0))
        => (pc = "raised" /\ exception = "SourceUnavailable")

\* C7: a call that leaves the loop returns normally with the accepted list, and
\* reports "No frames were extracted" exactly when that list is empty.
C7_NoFramesIffEmpty ==
    pc = "returned" =>
        /\ exception = "none"
        /\ result = extracted_frames
        /\ (printed = "no_frames") <=> (Len(result) = 0)
        /\ (printed = "finished") <=> (Len(result) > 0)

\* C7 witness: the loop ran, accepted nothing, and the call returned the empty
\* list with the report.
C7_Witness ==
    /\ pc = "returned"
    /\ iters > 0
    /\ result = <<>>
    /\ printed = "no_frames"

\* C8 (as claimed): once the file of an accepted frame could not be written the
\* call has failed with WriteFailure; it does not go on.
C8_WriteFailurePropagates ==
    WriteFailed => (pc = "raised" /\ exception = "WriteFailure")

\* C9: a second call on the same video and configuration samples the same
\* indices, decides the same at each, and accepts the same frames as the first:
\* its log and accepted list are always prefixes of the first call's, and equal
\* to them, with the same outcome, once it has ended.
C9_SecondCallRepeatsFirst ==
    calls >= 2 =>
        /\ IsPrefix(log, earlier.log)
        /\ IsPrefix(extracted_frames, earlier.frames)
        /\ Ended => /\ log = earlier.log
                    /\ extracted_frames = earlier.frames
                    /\ pc = earlier.outcome

\* C9 witness: a second call has ended after an acceptance, a similarity
\* rejection and an overlap rejection, with the output folder in another state
\* than in the first call (which wrote nothing).
C9_Witness ==
    /\ calls = 2
    /\ pc = "returned"
    /\ Decisions("accept") # {}
    /\ Decisions("ssim_reject") # {}
    /\ Decisions("overlap_reject") # {}
    /\ earlier.files = NoFiles
    /\ written # NoFiles

Sampled(k) == k * step_size

\* Every candidate the budget allows decodes and is at most ssim_threshold
\* similar to the candidate before it.
AllSampledDissimilar ==
    \A k \in 0..(max_frames - 1) :
        /\ Sampled(k) < Len(video)
        /\ video[Sampled(k) + 1].ret
        /\ k > 0 =>
               LET before == video[Sampled(k - 1) + 1].frame
                   this == video[Sampled(k) + 1].frame
               IN  /\ ~ShapeMismatch(before, this)
                   /\ ssim(cvtColor(before), cvtColor(this)) <= ssim_threshold

\* C11: when every sampled candidate decodes and is SSIM-dissimilar from the one
\* before it, max_overlap_percentage is 100 and max_frames divides total_frames,
\* the call returns exactly max_frames frames, those at indices 0, stride, ...,
\* (max_frames - 1) * stride with stride = total_frames / max_frames, every
\* iteration being an acceptance.
C11_DistinctFramesFillBudget ==
    (/\ pc = "returned"
     /\ total_frames >= 1
     /\ total_frames % max_frames = 0
     /\ max_overlap_percentage = 100
     /\ AllSampledDissimilar) =>
        /\ step_size * max_frames = total_frames
        /\ Len(result) = max_frames
        /\ Len(log) = max_frames
        /\ \A k \in 1..max_frames :
               /\ log[k] = Entry((k - 1) * step_size, "accept")
               /\ result[k] = video[(k - 1) * step_size + 1].frame

\* C11 witness: such a call returned with a stride above 1 and several frames.
C11_Witness ==
    /\ pc = "returned"
    /\ total_frames % max_frames = 0
    /\ max_overlap_percentage = 100
    /\ AllSampledDissimilar
    /\ step_size >= 3
    /\ max_frames >= 4
    /\ ssim_threshold < 100

\* C12: calculate_overlap_percentage(img, img) is 100 for every image img
\* compared with itself.
C12_SelfOverlapIsFull ==
    (scored.fn = "overlap" /\ image1 = image2) =>
        /\ ~scored.out.raised
        /\ scored.out.value = 100

\* C12 witness: the overlap of an image of several colours with itself has been
\* computed.
C12_Witness ==
    /\ scored.fn = "overlap"
    /\ image1 = image2
    /\ Len(image1) = MaxPixels
    /\ \E i, j \in 1..Len(image1) : image1[i] # image1[j]

\* A comparison of the candidate meets an image of another shape: prev_frame
\* at line 57, or a recent accepted frame at line 67 before any overlap is found.
MismatchInLoop ==
    /\ InLoop
    /\ ret
    /\ \/ prev_frame # None /\ ShapeMismatch(prev_frame, frame)
       \/ /\ PassesSsim
          /\ OverlapScan(frame, RecentFrames) = "raise"

\* C13: two images of differing dimensions handed to the SSIM primitive or to
\* calculate_overlap_percentage give an exception and no value, and inside
\* extract_frames that exception ends the whole call: nothing is returned and
\* no further candidate is examined.
C13_ShapeMismatchRaisesAndAborts ==
    [][/\ (scored'.fn # "none" /\ ShapeMismatch(image1', image2')) =>
              scored'.out = Raised
       /\ MismatchInLoop =>
              /\ pc' = "raised"
              /\ exception' \in {"ValueError", "cv2.error"}
              /\ result' = <<>>
              /\ printed' = "none"
              /\ UNCHANGED <<count, extracted_frames, written, frame_num, prev_frame>>
       /\ pc = "raised" => (pc' = "raised" \/ (pc' = "loop" /\ calls' = calls + 1))]_vars

\* C13 witness: a call of extract_frames that had accepted a frame was ended by
\* a frame of another shape.
C13_Witness ==
    /\ pc = "raised"
    /\ exception = "ValueError"
    /\ count >= 1
    /\ ShapeMismatch(prev_frame, video[frame_num + 1].frame)

\* The optional arguments that are supplied: args[3], args[4] and args[5].
Supplied == {i \in 3..5 : i < Len(args)}

\* The word parses as a number, integer or not.
ParsesAsNumber(s) == s \in DOMAIN IntLiterals \cup DOMAIN FloatLiterals

\* A help request: the one argument -h or -help.
IsHelp == Len(args) = 2 /\ args[2] \in {"-h", "-help"}

\* The statuses of a returned call, given when extract_frames is to be invoked.
StatusesFollow(toInvoke) ==
    v2i_pc = "returned" =>
        /\ status \in {2, 1, StatusNone}
        /\ invoked <=> toInvoke
        /\ status = 2 <=> IsHelp
        /\ (~invoked /\ ~IsHelp) => status = 1
        /\ invoked => /\ outcome = "returned" => status = StatusNone
                      /\ outcome = "raised" => status = 1

\* C14 as stated: video_to_image returns 2 for a help request, 1 for an error
\* and None for success; extract_frames is invoked if and only if a video path
\* and a project path are given and every supplied optional argument parses as
\* a number; an exception of extract_frames becomes status 1.
C14_InvokedIffNumbers ==
    StatusesFollow(Len(args) >= 3 /\ \A i \in Supplied : ParsesAsNumber(args[i + 1]))

\* C14 amended: as above, but extract_frames is invoked if and only if a video
\* path and a project path are given, the supplied max frames and overlap
\* percentage parse as integers (int) and the supplied SSIM threshold parses as
\* a float.
C14_InvokedIffIntIntFloat ==
    StatusesFollow(/\ Len(args) >= 3
                   /\ \A i \in Supplied \cap {3, 4} : args[i + 1] \in DOMAIN IntLiterals
                   /\ \A i \in Supplied \cap {5} : args[i + 1] \in DOMAIN FloatLiterals)

\* C14 witness: a call returned 1 without invoking extract_frames because its
\* overlap percentage, a number, is not an integer; its other arguments parse.
C14_Witness ==
    /\ v2i_pc = "returned"
    /\ Len(args) = 6
    /\ args[4] \in DOMAIN IntLiterals
    /\ args[5] \in DOMAIN FloatLiterals \ DOMAIN IntLiterals
    /\ args[6] \in DOMAIN FloatLiterals
    /\ ~invoked
    /\ status = 1

\* C15: the session ends only when cli returns 0, which happens exactly for the
\* exit commands -e, -stop, -quit and -exit, or on a keyboard interrupt; after
\* any other command, one that raises included, the loop prompts again.
C15_SessionEndsOnlyOnExitOrInterrupt ==
    /\ session_pc = "exited" => ended_by \in {"return 0", "KeyboardInterrupt"}
    /\ ended_by = "return 0" =>
           strip(user_cmd) \in {<<"-e">>, <<"-stop">>, <<"-quit">>, <<"-exit">>}

\* The candidate decodes and its similarity to prev_frame is above the threshold.
AboveSsimThreshold ==
    /\ InLoop
    /\ ret
    /\ prev_frame # None
    /\ ~ShapeMismatch(prev_frame, frame)
    /\ ssim(cvtColor(prev_frame), cvtColor(frame)) > ssim_threshold

\* C16: a decoded candidate whose SSIM similarity to prev_frame is strictly
\* above ssim_threshold is rejected by the similarity gate alone (whatever its
\* overlap with the accepted frames): prev_frame, count, the accepted sequence
\* and the written files stay as they are and frame_num grows by step_size.
C16_SsimRejectTransition ==
    [][AboveSsimThreshold =>
           /\ log' = Append(log, Entry(frame_num, "ssim_reject"))
           /\ frame_num' = frame_num + step_size
           /\ pc' = "loop"
           /\ UNCHANGED <<prev_frame, count, extracted_frames, written>>]_vars

\* C16 witness: the last candidate was rejected by the similarity gate, it is
\* not prev_frame itself, and its overlap with the accepted frames would not
\* have rejected it.
C16_Witness ==
    /\ pc = "loop"
    /\ step_size >= 1
    /\ Len(log) >= 2
    /\ log[Len(log)].decision = "ssim_reject"
    /\ LET candidate == video[log[Len(log)].frame_num + 1].frame
       IN  /\ candidate # prev_frame
           /\ OverlapScan(candidate, RecentFrames) = "clear"

\* The last min(OverlapWindow, count) accepted frames, by position.
LastAccepted ==
    {i \in 1..Len(extracted_frames) :
        i > Len(extracted_frames) - (IF count < OverlapWindow THEN count ELSE OverlapWindow)}

\* The candidate reaches the overlap check and no comparison raises.
AtOverlapGate ==
    /\ InLoop
    /\ ret
    /\ prev_frame # None =>
           /\ ~ShapeMismatch(prev_frame, frame)
           /\ ssim(cvtColor(prev_frame), cvtColor(frame)) <= ssim_threshold
    /\ \A i \in 1..Len(extracted_frames) : ~ShapeMismatch(frame, extracted_frames[i])

\* The accepted frames, among those at the positions I, that the candidate
\* overlaps by more than max_overlap_percentage.
Overlapped(I) ==
    {i \in I : calculate_overlap_percentage(frame, extracted_frames[i])
                   > max_overlap_percentage}

\* C17: a candidate that passes the SSIM gate and overlaps some frame of the
\* recent accepted window by more than max_overlap_percentage becomes
\* prev_frame, while count, the accepted sequence and the written files stay as
\* they are, and frame_num grows by step_size.
C17_OverlapRejectTransition ==
    [][(AtOverlapGate /\ Overlapped(LastAccepted) # {}) =>
           /\ prev_frame' = frame
           /\ log' = Append(log, Entry(frame_num, "overlap_reject"))
           /\ frame_num' = frame_num + step_size
           /\ pc' = "loop"
           /\ UNCHANGED <<count, extracted_frames, written>>]_vars

\* C17 witness: the last candidate was rejected by the overlap gate and became
\* prev_frame, which it was not before.
C17_Witness ==
    /\ pc = "loop"
    /\ step_size >= 1
    /\ Len(log) >= 2
    /\ log[Len(log)].decision = "overlap_reject"
    /\ log[Len(log) - 1].decision = "accept"
    /\ prev_frame = video[log[Len(log)].frame_num + 1].frame
    /\ prev_frame # video[log[Len(log) - 1].frame_num + 1].frame

\* C18: the overlap gate compares a candidate with exactly the last
\* min(10, count) accepted frames: the candidate is accepted if and only if it
\* overlaps none of those by more than max_overlap_percentage, whatever its
\* overlap with older accepted frames or with rejected candidates.
C18_WindowIsLastTenAccepted ==
    [][AtOverlapGate =>
           /\ (Overlapped(LastAccepted) = {}) <=>
                  /\ count' = count + 1
                  /\ extracted_frames' = Append(extracted_frames, frame)
           /\ (Overlapped(LastAccepted) # {}) <=>
                  /\ count' = count
                  /\ extracted_frames' = extracted_frames]_vars

\* C18 witness: the last candidate was accepted although it overlaps, by more
\* than max_overlap_percentage, an accepted frame 11 acceptances back, and a
\* rejected candidate lies between the two.
C18_Witness ==
    /\ pc = "loop"
    /\ Len(log) >= 1
    /\ log[Len(log)].decision = "accept"
    /\ count = OverlapWindow + 2
    /\ calculate_overlap_percentage(extracted_frames[count], extracted_frames[1])
           > max_overlap_percentage
    /\ \E k \in 1..Len(log) :
           /\ log[k].decision \in {"ssim_reject", "overlap_reject"}
           /\ \E a \in 1..(k - 1) : log[a].decision = "accept"

\* C19: a failed decode at a candidate index is a skipped candidate: no
\* exception, prev_frame, count, the accepted sequence and the written files
\* stay as they are, frame_num grows by step_size and the loop goes on.
C19_DecodeFailureSkipped ==
    [][(InLoop /\ ~video[frame_num + 1].ret) =>
           /\ log' = Append(log, Entry(frame_num, "decode_skip"))
           /\ frame_num' = frame_num + step_size
           /\ pc' = "loop"
           /\ exception' = "none"
           /\ UNCHANGED <<prev_frame, count, extracted_frames, written>>]_vars

\* C19 witness: a candidate failed to decode after a frame had been accepted,
\* and a later candidate was accepted.
C19_Witness ==
    /\ step_size >= 1
    /\ \E k \in 2..(Len(log) - 1) :
           /\ log[k].decision = "decode_skip"
           /\ log[k - 1].decision = "accept"
           /\ log[k + 1].decision = "accept"

\* Every decode attempt of the call failed.
NeverDecoded ==
    /\ Len(log) >= 1
    /\ \A k \in 1..Len(log) : log[k].decision = "decode_skip"

\* C20: a call ends with DecodeError exactly when it made decode attempts and
\* every one of them failed; a call in which some candidate decoded does not
\* end with DecodeError.
C20_DecodeErrorIffNeverDecoded ==
    Ended => ((exception = "DecodeError") <=> NeverDecoded)

\* A call of extract_frames has been made.
InCall == pc \in {"loop", "returned", "raised"}

\* C21: step_size is computed once, when the call starts, as
\* floor(total_frames / max_frames), and no later step of the call (accept,
\* SSIM rejection, overlap rejection, decode failure, exit) changes it or
\* max_frames.
C21_StrideComputedOnce ==
    [][/\ calls' # calls =>
              /\ step_size' * max_frames' <= total_frames'
              /\ total_frames' < (step_size' + 1) * max_frames'
       /\ calls' = calls =>
              /\ step_size' = step_size
              /\ max_frames' = max_frames]_vars

\* C21 witness: a call of stride 2 or more returned after accepting and
\* rejecting candidates.
C21_Witness ==
    /\ pc = "returned"
    /\ step_size >= 2
    /\ Decisions("accept") # {}
    /\ Decisions("overlap_reject") # {}
    /\ step_size = total_frames \div max_frames

\* The frame read at the last iteration whose decision is in D; None if there
\* is no such iteration.
LastWith(D) ==
    LET I == {i \in 1..Len(log) : log[i].decision \in D}
    IN  IF I = {} THEN None
        ELSE video[log[CHOOSE i \in I : \A j \in I : j <= i].frame_num + 1].frame

\* C22 as stated: at the start of every loop iteration prev_frame is the most
\* recently decoded frame, accepted or not, and None before the first decode.
C22_PrevIsLastDecoded ==
    pc = "loop" => prev_frame = LastWith({"accept", "overlap_reject", "ssim_reject"})

\* C22 amended: at the start of every loop iteration prev_frame is the most
\* recently decoded frame that the SSIM gate did not reject (accepted or
\* rejected by the overlap gate), and None before the first decode.
C22_PrevIsLastPastSsimGate ==
    pc = "loop" => prev_frame = LastWith({"accept", "overlap_reject"})

\* C22 witness: the last decoded frame was rejected by the SSIM gate and is not
\* the image prev_frame holds.
C22_Witness ==
    /\ pc = "loop"
    /\ Len(log) >= 1
    /\ log[Len(log)].decision = "ssim_reject"
    /\ prev_frame # None
    /\ prev_frame # video[log[Len(log)].frame_num + 1].frame

\* C23: an iteration is run only from a state with count < max_frames and
\* frame_num < total_frames, and it reads the candidate at frame_num; when the
\* loop is left by its condition, count = max_frames or frame_num >= total_frames.
C23_LoopRunsOnlyWithinBudgetAndVideo ==
    [][/\ (calls' = calls /\ log' # log) =>
              /\ count < max_frames
              /\ frame_num < total_frames
              /\ log' = Append(log, Entry(frame_num, log'[Len(log')].decision))
       /\ (pc = "loop" /\ pc' = "returned") =>
              \/ count' = max_frames
              \/ frame_num' >= total_frames]_vars

\* C23 witness: the loop was left at the end of the video with the budget unmet
\* and some frames accepted.
C23_Witness ==
    /\ pc = "returned"
    /\ step_size >= 1
    /\ frame_num >= total_frames
    /\ count >= 1
    /\ count < max_frames

\* The frames of the iterations of l that accepted their candidate, in order.
RECURSIVE AcceptedIn(_)
AcceptedIn(l) ==
    IF l = <<>> THEN <<>>
    ELSE (IF Head(l).decision = "accept"
          THEN <<video[Head(l).frame_num + 1].frame>> ELSE <<>>) \o AcceptedIn(Tail(l))

\* C24: across every step of a call the accepted list before is a prefix of the
\* accepted list after, and the returned list holds every frame accepted during
\* the call, in the order of acceptance.
C24_AcceptedIsAppendOnly ==
    [][calls' = calls =>
           /\ IsPrefix(extracted_frames, extracted_frames')
           /\ pc' = "returned" =>
                  /\ result' = extracted_frames'
                  /\ result' = AcceptedIn(log')]_vars

\* C24 witness: a call returned more frames than the overlap window holds.
C24_Witness ==
    /\ pc = "returned"
    /\ Len(result) > OverlapWindow
    /\ Len(log) > Len(result)

\* C27: the first candidate of a call that decodes is accepted, so a call
\* returns an empty list if and only if none of its candidates decoded.
C27_FirstDecodedIsAccepted ==
    InCall =>
        /\ \A k \in 1..Len(log) :
               (/\ log[k].decision # "decode_skip"
                /\ \A j \in 1..(k - 1) : log[j].decision = "decode_skip")
                   => log[k].decision = "accept"
        /\ pc = "returned" =>
               (result = <<>> <=> \A k \in 1..Len(log) : log[k].decision = "decode_skip")

\* C27 witness: the first candidate failed to decode, the second decoded and
\* was accepted, and the call returned.
C27_Witness ==
    /\ pc = "returned"
    /\ Len(log) >= 2
    /\ log[1].decision = "decode_skip"
    /\ log[2].decision = "accept"
    /\ max_overlap_percentage < 100

\* C28: the n-th iteration of a call (n from 0) examines the index
\* n * step_size, and after n iterations that did not raise frame_num is
\* n * step_size: every branch advances frame_num by step_size exactly once.
C28_EveryIterationAdvancesByStride ==
    InCall =>
        /\ \A n \in 1..Len(log) : log[n].frame_num = (n - 1) * step_size
        /\ pc \in {"loop", "returned"} => frame_num = Len(log) * step_size

\* C28 witness: with a stride of 2 or more, iterations have accepted and rejected
\* candidates.
C28_Witness ==
    /\ pc = "loop"
    /\ step_size >= 2
    /\ Len(log) >= 3
    /\ log[Len(log)].decision = "overlap_reject"
    /\ log[Len(log) - 1].decision = "accept"

\* C29: in every state of a call count is the length of the accepted list and
\* the number of frames handed to cv2.imwrite so far; the files written are
\* among frame_0 .. frame_{count-1}, and frame_{count} is not yet written.
C29_CountIsLengthAndWrites ==
    InCall =>
        /\ count = Len(extracted_frames)
        /\ count = Cardinality(Decisions("accept"))
        /\ DOMAIN written \subseteq {output_path(i) : i \in 0..(count - 1)}
        /\ folder_exists => DOMAIN written = {output_path(i) : i \in 0..(count - 1)}
        /\ Len(RecentFrames) = (IF count < OverlapWindow THEN count ELSE OverlapWindow)

\* C29 witness: frames were accepted and candidates rejected while no file
\* could be written.
C29_Witness ==
    /\ pc = "loop"
    /\ count >= 2
    /\ Len(log) > count
    /\ ~folder_exists

Ceil(a, b) == (a + b - 1) \div b

\* C30: with 1 <= max_frames <= total_frames the stride is at least 1, a call
\* runs at most ceil(total_frames / step_size) iterations (after that many its
\* loop condition is false), and no index is read twice.
C30_TerminatesWithinCeilIterations ==
    (InCall /\ max_frames <= total_frames) =>
        /\ step_size >= 1
        /\ iters = Len(log)
        /\ iters <= Ceil(total_frames, step_size)
        /\ iters = Ceil(total_frames, step_size) => frame_num >= total_frames \/ pc = "raised"
        /\ \A i, j \in 1..Len(log) : i # j => log[i].frame_num # log[j].frame_num

\* C30 witness: a call whose stride does not divide the length of the video
\* returned after ceil(total_frames / step_size) iterations.
C30_Witness ==
    /\ pc = "returned"
    /\ max_frames <= total_frames
    /\ step_size >= 2
    /\ total_frames % step_size # 0
    /\ iters = Ceil(total_frames, step_size)

\* The pixels at which the two images of a direct call differ in gray value.
DifferingPixels == {i \in 1..Len(image1) : Gray(image1[i]) # Gray(image2[i])}

\* C25: for two images of equal dimensions calculate_overlap_percentage gives
\* (total_pixels - differing_pixels) / total_pixels * 100 (the model keeps its
\* integer part), differing_pixels being the pixels whose gray values differ;
\* the result is within 0..100 and below 100 whenever some pixel differs in
\* gray value.
C25_OverlapFormulaAndRange ==
    (scored.fn = "overlap" /\ Len(image1) = Len(image2)) =>
        LET total_pixels == Len(image1)
            differing_pixels == Cardinality(DifferingPixels)
            value == scored.out.value
        IN  /\ ~scored.out.raised
            /\ value * total_pixels <= (total_pixels - differing_pixels) * 100
            /\ (total_pixels - differing_pixels) * 100 < (value + 1) * total_pixels
            /\ value >= 0
            /\ value <= 100
            /\ differing_pixels >= 1 => value < 100

\* C25 witness: the overlap of two images was computed that differ in gray
\* value at one pixel, in colour only at another, and agree at a third.
C25_Witness ==
    /\ scored.fn = "overlap"
    /\ Len(image1) = 3
    /\ Len(image2) = 3
    /\ Cardinality(DifferingPixels) = 1
    /\ \E i \in 1..3 : image1[i] # image2[i] /\ i \notin DifferingPixels
    /\ \E i \in 1..3 : image1[i] = image2[i]

\* The eleven stages in their order.
ElevenStages ==
    <<"cameraInit", "featureExtraction", "imageMatching", "featureMatching",
      "incrementalSfM", "prepareDenseScene", "depthMapEstimation",
      "depthMapFiltering", "meshing", "meshFiltering", "texturing">>

\* The names of the lines of the stats file.
RECURSIVE Names(_)
Names(lines) ==
    IF lines = <<>> THEN <<>> ELSE <<Head(lines).name>> \o Names(Tail(lines))

=============================================================================
